---------------------------- MODULE Spec2Model ----------------------------
(***************************************************************************)
(* A model of the askmydocs front end: the chat page's citation-verified   *)
(* PDF viewer (frontend/app/app/chats/page.js) and the library page's      *)
(* preview dialog (frontend/app/app/documents/page.js).                    *)
(*                                                                         *)
(* React state hooks are the variables.  Every handler is one action: the  *)
(* synchronous code between two awaits runs atomically on the UI thread,   *)
(* the state updates it made are committed together, and the effects whose *)
(* dependencies changed run as part of the same step (RenderEffect).       *)
(***************************************************************************)
EXTENDS Integers, Sequences, FiniteSets, TLC

(***************************************************************************)
(* Bounds of the model.                                                    *)
(***************************************************************************)
MaxAttempts == 2      \* native render attempts per mount of the chat page
MaxGestures == 2      \* user gestures per mount of a page (specification Spec)
MaxFsEvents == 1      \* fullscreenchange notifications queued at a time

(***************************************************************************)
(* Program constants.                                                      *)
(***************************************************************************)
ZoomMin == 50
ZoomMax == 200
ZoomStep == 10
ZoomDefault == 100
FitMargin == 24
MaxHighlights == 24
MinTokenLen == 4

(***************************************************************************)
(* Inputs: the documents the server knows, the citations an answer can     *)
(* carry, and the widths the viewer's container can measure.               *)
(***************************************************************************)
NoDoc == "none"
Docs == {"report", "memo", "notes"}

\* preview_type of a document's descriptor, as the server reports it.
PreviewType(d) == IF d = "notes" THEN "text" ELSE "pdf"

\* pdf.numPages of a document.
NumPages(d) == IF d = "report" THEN 3 ELSE 2

\* rawViewport.width of a page at scale 1.
PageWidth(d) == IF d = "report" THEN 600 ELSE 300

Widths == {0, 624}

NoData == [id |-> NoDoc, preview_type |-> "none"]
Descriptor(d) == [id |-> d, preview_type |-> PreviewType(d)]

(***************************************************************************)
(* Text.  A string is a sequence of one-character strings.                 *)
(***************************************************************************)
Lower == {"a","b","c","d","e","f","g","h","i","j","k","l","m",
          "n","o","p","q","r","s","t","u","v","w","x","y","z"}
Upper == {"N", "R", "C"}
Digits == {"0","1","2","3","4","5","6","7","8","9"}

\* String.prototype.toLowerCase, one character.
LowerOf(c) == CASE c = "N" -> "n" [] c = "R" -> "r" [] c = "C" -> "c" [] OTHER -> c

\* String.prototype.toLowerCase.
ToLowerCase(s) == [i \in 1..Len(s) |-> LowerOf(s[i])]

\* A character the class [^a-z0-9] with flag i does NOT match.
IsAlnum(c) == c \in Lower \cup Upper \cup Digits

\* s.split(/[^a-z0-9]+/i): the pieces between runs of separators; JavaScript
\* yields an empty piece before a leading and after a trailing run.
RECURSIVE SplitFrom(_, _, _, _)
SplitFrom(s, i, cur, inSep) ==
  IF i > Len(s) THEN <<cur>>
  ELSE IF IsAlnum(s[i]) THEN SplitFrom(s, i + 1, Append(cur, s[i]), FALSE)
  ELSE IF inSep THEN SplitFrom(s, i + 1, cur, TRUE)
  ELSE <<cur>> \o SplitFrom(s, i + 1, <<>>, TRUE)

Split(s) == SplitFrom(s, 1, <<>>, FALSE)

LongTokenFromFour(t) == Len(t) >= MinTokenLen

\* .filter((token) => token.length > 4)
LongToken(t) == Len(t) > MinTokenLen

\* snippetTokens of a snippet.
SnippetTokens(snippet) == SelectSeq(Split(ToLowerCase(snippet)), LongToken)

\* String.prototype.includes.
Includes(text, tok) ==
  \E i \in 1..(Len(text) - Len(tok) + 1) : SubSeq(text, i, i + Len(tok) - 1) = tok

\* The reduce over snippetTokens: one point for every entry of the token list
\* the text includes.
Score(text, tokens) ==
  Cardinality({i \in 1..Len(tokens) : Includes(ToLowerCase(text), tokens[i])})

Revenue == <<"R","e","v","e","n","u","e">>
NetRevenues == <<"n","e","t"," ","r","e","v","e","n","u","e","s">>
Costs == <<"C","o","s","t","s"," ","2","0","2","4">>

RevenueCosts == <<"r","e","v","e","n","u","e"," ","C","o","s","t","s">>
Notes == <<"n","o","t","e","s">>

\* A page of many fragments: the document "ledger", used where the matcher
\* is taken alone.  Page 1 has 36 fragments, page 2 has 24, page 3 has 25
\* that all read the same, page 4 has 3.
LedgerLen(p) == CASE p = 1 -> 36 [] p = 2 -> 24 [] p = 3 -> 25 [] OTHER -> 3
LedgerCycle == <<Costs, Notes, RevenueCosts, Revenue>>
LedgerText(p) ==
  [i \in 1..LedgerLen(p) |-> IF p = 3 THEN Revenue ELSE LedgerCycle[((i + p) % 4) + 1]]

\* The text fragments pdf.js extracts from a page, in document order.
PageText(d, p) ==
  IF d = "ledger" THEN LedgerText(p)
  ELSE IF p % 2 = 1 THEN <<Costs, Revenue>> ELSE <<NetRevenues, Costs, Revenue>>

SnippetNone == <<>>
SnippetRevenue == <<"N","e","t"," ","r","e","v","e","n","u","e",","," ","c","o","s","t","s">>

SnippetShort == <<"n","e","t",","," ","2","0","2","4">>
SnippetRepeated ==
  <<"r","e","v","e","n","u","e"," ","R","e","v","e","n","u","e",";"," ","c","o","s","t","s">>
SnippetCosts == <<" ","C","o","s","t","s"," ","2","0","2","4","!">>
SnippetNotes == <<"n","o","t","e","s","-","n","e","t">>
Snippets ==
  {SnippetNone, SnippetRevenue, SnippetShort, SnippetRepeated, SnippetCosts, SnippetNotes}

NoSource == [page |-> 0, snippet |-> SnippetNone, id |-> "none"]
Citations ==
  { [page |-> 2, snippet |-> SnippetRevenue, id |-> "c2"],
    [page |-> 7, snippet |-> SnippetNone, id |-> "c7"] }

(***************************************************************************)
(* Scale.  A scale is the rational n/d with d > 0, kept as a record.       *)
(***************************************************************************)
Abs(x) == IF x < 0 THEN -x ELSE x

ClampScaleNoFloor(n, d) ==
  IF n > 3 * d THEN [n |-> 3, d |-> 1] ELSE [n |-> n, d |-> d]

\* Math.max(0.6, Math.min(3.0, n/d)) for d > 0.
ClampScale(n, d) ==
  IF 10 * n < 6 * d THEN [n |-> 3, d |-> 5]
  ELSE IF n > 3 * d THEN [n |-> 3, d |-> 1]
  ELSE [n |-> n, d |-> d]

FitScaleFinite(cw, pw) == pw # 0

\* Number.isFinite(fitScale) && fitScale > 0 for fitScale = (cw - 24) / pw.
FitScaleUsable(cw, pw) == pw # 0 /\ (cw - FitMargin) * pw > 0

\* The scale of a render: lines 264-270 of renderPdfVerification.
ComputeScale(zoom, fit, cw, pw) ==
  IF fit /\ FitScaleUsable(cw, pw)
  THEN ClampScale(Abs(cw - FitMargin), Abs(pw))
  ELSE ClampScale(zoom, 100)

\* Zoom out (lines 687 and 499): Math.max(50, z - 10).
ZoomOut(z) == IF z - ZoomStep < ZoomMin THEN ZoomMin ELSE z - ZoomStep

ZoomInUnclamped(z) == z + ZoomStep

\* Zoom in (lines 696 and 508): Math.min(200, z + 10).
ZoomIn(z) == IF z + ZoomStep > ZoomMax THEN ZoomMax ELSE z + ZoomStep

\* The page number taken as given, without Math.max(1, ...).
SafePageRaw(p) == p

\* safePage: Math.max(1, Number(pageNumber || 1)) (lines 95 and 253).
SafePage(p) == IF p < 1 THEN 1 ELSE p

\* buildPdfViewerUrl (lines 93-100): `${baseUrl}#page=${safePage}&zoom=${zoomPart}`.
BuildPdfViewerUrl(baseUrl, pageNumber, fitWidth, zoom) ==
  [base |-> baseUrl, page |-> SafePage(pageNumber),
   zoom |-> IF fitWidth THEN "page-width" ELSE zoom]


(***************************************************************************)
(* The snippet matcher: lines 298-317 of renderPdfVerification.  A span of *)
(* the text layer is [att, doc, page, idx, hl]: the attempt that wrote it, *)
(* the fragment PageText(doc, page)[idx] it shows, and whether it carries  *)
(* the highlight style.                                                    *)
(***************************************************************************)
SpanText(sp) == PageText(sp.doc, sp.page)[sp.idx]

\* spans.map(...): the span's position in the container and its score.
Scored(spans, tokens) ==
  [i \in 1..Len(spans) |-> [span |-> i, score |-> Score(SpanText(spans[i]), tokens)]]

PositiveScore(item) == item.score > 0

\* Array.prototype.sort((a, b) => b.score - a.score): stable, descending.
RECURSIVE InsertByScore(_, _)
InsertByScore(sorted, item) ==
  IF sorted = <<>> THEN <<item>>
  ELSE IF Head(sorted).score >= item.score
       THEN <<Head(sorted)>> \o InsertByScore(Tail(sorted), item)
       ELSE <<item>> \o sorted

RECURSIVE SortByScore(_)
SortByScore(items) ==
  IF items = <<>> THEN <<>>
  ELSE InsertByScore(SortByScore(SubSeq(items, 1, Len(items) - 1)), items[Len(items)])

TopSliceAll(items) == items

\* .slice(0, 24)
TopSlice(items) ==
  SubSeq(items, 1, IF Len(items) < MaxHighlights THEN Len(items) ELSE MaxHighlights)

\* The positions of the spans that get the highlight style.
HighlightedPositions(spans, tokens) ==
  LET top == TopSlice(SortByScore(SelectSeq(Scored(spans, tokens), PositiveScore)))
  IN {top[k].span : k \in 1..Len(top)}

\* if (snippetTokens.length) { ... scored.forEach(style) }
ApplyHighlights(spans, snippet) ==
  LET tokens == SnippetTokens(snippet)
  IN IF Len(tokens) = 0 THEN spans
     ELSE [i \in 1..Len(spans) |->
             IF i \in HighlightedPositions(spans, tokens)
             THEN [spans[i] EXCEPT !.hl = TRUE] ELSE spans[i]]

\* renderTextLayer: one span per text fragment of the page, appended.
PageSpans(att, d, p) ==
  [i \in 1..Len(PageText(d, p)) |->
     [att |-> att, doc |-> d, page |-> p, idx |-> i, hl |-> FALSE]]

(***************************************************************************)
(* State.                                                                  *)
(***************************************************************************)
VARIABLES
  route,                 \* the page shown: "documents", "chats" or "signin"
  access_token,          \* localStorage: "valid" or "none"
  current_user,          \* localStorage: "set" or "none"
  auth_mode,             \* localStorage: "set" or "none"
  gestures,              \* user gestures counted since the page mounted
  \* ---- ChatsPage: React state
  activeDocumentId, previewLoading, previewData, selectedSource, pdfjsApi,
  pdfBusy, pdfError, pdfUseIframeFallback, viewerZoom, viewerFitWidth,
  viewerFullscreen, chatError,
  \* ---- ChatsPage: asynchronous work in flight and the DOM
  fetches,               \* documents whose loadPreview awaits its response
  renders,               \* renderPdfVerification calls in flight
  attempts,              \* renderPdfVerification calls that passed the guard
  canvas,                \* the mounted <canvas>: who sized it, what is painted
  textLayer,             \* the mounted text layer: who sized it, its spans
  clientWidth,           \* pdfScrollRef.current.clientWidth
  fullscreenElement,     \* Boolean(document.fullscreenElement)
  fsEvents,              \* fullscreenchange notifications not yet delivered
  citedDoc,              \* the document that was active when a citation was last selected
  sending,               \* React state: an ask is being answered
  asks,                  \* requests to /chats/ask in flight
  shownSources,          \* the citations of the answers in messages
  answers,               \* the answers appended to messages
  scrollRequests,        \* pairs of scroll requests made since the page mounted
  \* ---- DocumentsPage
  libPreviewLoading, libPreviewData, previewZoom, previewFitWidth,
  previewFullscreen, libError, libFetches,
  libRequested,          \* the documentId of the latest openPreview call
  \* ---- the scale computation taken alone (specification SpecScale)
  scaleIn,               \* the inputs of one scale computation
  scaleOut,              \* its result, NoScale before it ran
  \* ---- the snippet matcher taken alone (specification SpecMatcher)
  matchIn,               \* the page and the snippet of one match
  matchOut,              \* its tokens, scores and styled spans
  \* ---- DocxPreview (specification SpecDocx)
  docxMounted,           \* the component is in the tree
  fileUrl,               \* the fileUrl prop, "" for none
  docxLoading,           \* useState loading
  docxError,             \* useState error
  docxContainer,         \* what containerRef.current holds
  docxLoads,             \* the calls of renderDocx that have not returned
  docxCount,             \* the calls of renderDocx made so far
  \* ---- getValidAccessToken taken alone (specification SpecToken)
  tokenIn,               \* the token stored before the call, its payload, the clock
  tokenOut               \* what the call returned, NotCalled before it ran

sessionVars == <<access_token, current_user, auth_mode>>

\* The entries the sign-in page stored.
SessionStored ==
  access_token = "valid" /\ current_user = "set" /\ auth_mode = "set"

ClearSessionTokenOnly ==
  access_token' = "none" /\ UNCHANGED <<current_user, auth_mode>>

\* clearSession of the pages (chats/page.js 107-111, documents/page.js
\* 132-136).
ClearSession ==
  access_token' = "none" /\ current_user' = "none" /\ auth_mode' = "none"

\* clearLocalSession of lib/session, called by getValidAccessToken for a
\* token that expires within five seconds.
ClearLocalSession ==
  access_token' = "none" /\ current_user' = "none" /\ auth_mode' = "none"

chatVars ==
  <<activeDocumentId, previewLoading, previewData, selectedSource, pdfjsApi,
    pdfBusy, pdfError, pdfUseIframeFallback, viewerZoom, viewerFitWidth,
    viewerFullscreen, chatError, fetches, renders, attempts, canvas,
    textLayer, clientWidth, fullscreenElement, fsEvents, citedDoc, sending, asks,
    shownSources, answers, scrollRequests>>

askVars == <<sending, asks, shownSources, answers>>

libVars ==
  <<libPreviewLoading, libPreviewData, previewZoom, previewFitWidth,
    previewFullscreen, libError, libFetches, libRequested>>

scaleVars == <<scaleIn, scaleOut>>
matchVars == <<matchIn, matchOut>>
docxVars ==
  <<docxMounted, fileUrl, docxLoading, docxError, docxContainer, docxLoads,
    docxCount>>
tokenVars == <<tokenIn, tokenOut>>
pureVars == <<scaleVars, matchVars, docxVars, tokenVars>>

vars == <<route, sessionVars, gestures, chatVars, libVars, pureVars>>

NoError == ""
RendererLoadError == "PDF renderer could not be loaded."
RenderFailedError == "PDF.js rendering failed. Switched to compatible viewer."
PreviewLoadError == "Failed to load file preview."
LibPreviewLoadError == "Failed to load preview."

NoScale == [n |-> 0, d |-> 1]
BlankCanvas == [sized |-> 0, att |-> 0, doc |-> NoDoc, page |-> 0, scale |-> NoScale]
BlankTextLayer == [sized |-> 0, spans |-> <<>>]

\* useState initial values of ChatsPage, and nothing in flight.
ChatInit ==
  /\ activeDocumentId = NoDoc
  /\ previewLoading = FALSE
  /\ previewData = NoData
  /\ selectedSource = NoSource
  /\ pdfjsApi = "none"
  /\ pdfBusy = FALSE
  /\ pdfError = NoError
  /\ pdfUseIframeFallback = FALSE
  /\ viewerZoom = ZoomDefault
  /\ viewerFitWidth = TRUE
  /\ viewerFullscreen = FALSE
  /\ chatError = NoError
  /\ fetches = {}
  /\ renders = {}
  /\ attempts = 0
  /\ canvas = BlankCanvas
  /\ textLayer = BlankTextLayer
  /\ clientWidth \in Widths
  /\ fullscreenElement = FALSE
  /\ fsEvents = 0
  /\ citedDoc = NoDoc
  /\ sending = FALSE
  /\ asks = 0
  /\ shownSources = {}
  /\ answers = 0
  /\ scrollRequests = 0

\* useState initial values of DocumentsPage.
LibInit ==
  /\ libPreviewLoading = FALSE
  /\ libPreviewData = NoData
  /\ previewZoom = ZoomDefault
  /\ previewFitWidth = TRUE
  /\ previewFullscreen = FALSE
  /\ libError = NoError
  /\ libFetches = {}
  /\ libRequested = NoDoc

MatchIdle == [doc |-> NoDoc, page |-> 0, snippet |-> SnippetNone]
NoMatch == [done |-> FALSE, tokens |-> <<>>, scores |-> <<>>, spans |-> <<>>]

ScaleIdle == [zoom |-> ZoomDefault, fit |-> TRUE, cw |-> 0, pw |-> 0]

\* No DocxPreview is mounted.
NoUrl == ""
\* The container shows the document of shows, put there by the call by.
EmptyContainer == [shows |-> NoUrl, by |-> 0]
DocxIdle ==
  /\ docxMounted = FALSE
  /\ fileUrl = NoUrl
  /\ docxLoading = FALSE
  /\ docxError = NoError
  /\ docxContainer = EmptyContainer
  /\ docxLoads = {}
  /\ docxCount = 0

\* What parseJwtPayload (lines 34-46) makes of a token: parsed, the payload
\* decodes to an object; hasExp, the object has an exp member; numeric,
\* Number of that member is not NaN; exp, that number.
OpaqueToken == [parsed |-> FALSE, hasExp |-> FALSE, numeric |-> FALSE, exp |-> 0]
NotCalled == [called |-> FALSE, token |-> "none"]
TokenIdle ==
  /\ tokenIn = [stored |-> "valid", payload |-> OpaqueToken, now |-> 0]
  /\ tokenOut = NotCalled

Init ==
  /\ route = "documents"
  /\ SessionStored
  /\ gestures = 0
  /\ ChatInit
  /\ LibInit
  /\ scaleIn = ScaleIdle
  /\ scaleOut = NoScale
  /\ matchIn = MatchIdle
  /\ matchOut = NoMatch
  /\ DocxIdle
  /\ TokenIdle

(***************************************************************************)
(* ChatsPage: what is mounted, and the render effect.                      *)
(***************************************************************************)
\* The <canvas> and the text layer are in the tree (their refs are non-null)
\* exactly in this branch of the viewer's JSX (lines 733-764).
CanvasMounted ==
  /\ route = "chats"
  /\ ~previewLoading
  /\ previewData.preview_type = "pdf"
  /\ ~pdfUseIframeFallback

RenderDepsWithClicks ==
  <<previewData.id, pdfUseIframeFallback, pdfjsApi = "ready",
    previewData.preview_type, selectedSource.page, selectedSource.snippet,
    viewerZoom, viewerFitWidth, scrollRequests>>

\* The dependency list of renderPdfVerification (lines 324-333);
\* activeDocumentUrl is a function of the descriptor's file_url.
RenderDeps ==
  <<previewData.id, pdfUseIframeFallback, pdfjsApi = "ready",
    previewData.preview_type, selectedSource.page, selectedSource.snippet,
    viewerZoom, viewerFitWidth>>

\* The guard of renderPdfVerification (lines 238-247) lets the call through.
RenderGuardPasses ==
  /\ ~pdfUseIframeFallback
  /\ pdfjsApi = "ready"
  /\ previewData.id # NoDoc
  /\ previewData.preview_type = "pdf"
  /\ CanvasMounted

\* A render that holds references to elements no longer in the document.
Detach(r) == IF r.pc = "load" THEN r ELSE [r EXCEPT !.detached = TRUE]

\* The commit that follows a handler, and the effect of lines 335-337.  The
\* handler has set the primed React state; busy, err, rs, cv and tl are the
\* values it leaves for pdfBusy, pdfError, renders, canvas and textLayer.
\* Elements that leave the tree are lost with their content; when the
\* dependencies changed renderPdfVerification is called, and if its guard
\* passes it runs to its first await (lines 249-255).
RenderEffect(busy, err, rs, cv, tl) ==
  LET unmounted == CanvasMounted /\ ~CanvasMounted'
      kept == IF unmounted THEN {Detach(r) : r \in rs} ELSE rs
      start == RenderDeps' # RenderDeps /\ RenderGuardPasses'
      started ==
        [id |-> attempts + 1, doc |-> previewData'.id,
         reqPage |-> SafePage(selectedSource'.page),
         snippet |-> selectedSource'.snippet,
         zoom |-> viewerZoom', fit |-> viewerFitWidth',
         cited |-> (citedDoc' = previewData'.id),
         pc |-> "load", page |-> 0, scale |-> NoScale, detached |-> FALSE]
  IN /\ start => attempts < MaxAttempts
     /\ renders' = IF start THEN kept \cup {started} ELSE kept
     /\ attempts' = IF start THEN attempts + 1 ELSE attempts
     /\ pdfBusy' = IF start THEN TRUE ELSE busy
     /\ pdfError' = IF start THEN NoError ELSE err
     /\ canvas' = IF unmounted THEN BlankCanvas ELSE cv
     /\ textLayer' = IF unmounted THEN BlankTextLayer ELSE tl

\* A handler that touches none of pdfBusy, pdfError, renders and the DOM.
PlainEffect == RenderEffect(pdfBusy, pdfError, renders, canvas, textLayer)

effectVars == <<pdfBusy, pdfError, renders, attempts, canvas, textLayer>>
platformVars == <<clientWidth, fullscreenElement, fsEvents>>

(***************************************************************************)
(* ChatsPage: loadPreview (lines 161-202).                                 *)
(***************************************************************************)
\* The call up to its first await, from a page whose previewLoading,
\* previewData and fetches are pl, pd and fs.  live: the stored token's expiry
\* is more than five seconds away, so that getValidAccessToken returns it.
LoadPreviewStart(d, live, pl, pd, fs) ==
  IF d = NoDoc
  THEN /\ previewData' = NoData
       /\ previewLoading' = pl
       /\ fetches' = fs
       /\ route' = "chats"
       /\ UNCHANGED sessionVars
  ELSE IF ~live
  THEN \* getValidAccessToken cleared the session and returned null
       /\ previewData' = pd
       /\ previewLoading' = pl
       /\ fetches' = fs
       /\ route' = "signin"
       /\ ClearLocalSession
  ELSE /\ previewData' = pd
       /\ previewLoading' = TRUE
       /\ fetches' = fs \cup {d}
       /\ route' = "chats"
       /\ UNCHANGED sessionVars

\* "Chat with this file" (documents/page.js 459) or the Chats entry of the
\* side bar (317): ChatsPage mounts, its effects run.
GoChat(d, live) ==
  /\ route = "documents"
  /\ activeDocumentId' = d
  /\ selectedSource' = NoSource
  /\ pdfjsApi' = "loading"
  /\ pdfUseIframeFallback' = FALSE
  /\ viewerZoom' = ZoomDefault
  /\ viewerFitWidth' = TRUE
  /\ viewerFullscreen' = FALSE
  /\ chatError' = NoError
  /\ citedDoc' = NoDoc
  /\ sending' = FALSE
  /\ asks' = 0
  /\ shownSources' = {}
  /\ answers' = 0
  /\ scrollRequests' = 0
  /\ LoadPreviewStart(d, live, FALSE, NoData, {})
  /\ renders' = {}
  /\ attempts' = 0
  /\ pdfBusy' = FALSE
  /\ pdfError' = NoError
  /\ canvas' = BlankCanvas
  /\ textLayer' = BlankTextLayer
  /\ UNCHANGED platformVars
  /\ libPreviewLoading' = FALSE
  /\ libPreviewData' = NoData
  /\ previewZoom' = ZoomDefault
  /\ previewFitWidth' = TRUE
  /\ previewFullscreen' = FALSE
  /\ libError' = NoError
  /\ libFetches' = {}
  /\ libRequested' = NoDoc

\* The documentId of the address changes while ChatsPage stays mounted.
ChangeDocument(d, live) ==
  /\ route = "chats"
  /\ d # activeDocumentId
  /\ activeDocumentId' = d
  /\ LoadPreviewStart(d, live, previewLoading, previewData, fetches)
  /\ UNCHANGED <<selectedSource, pdfjsApi, pdfUseIframeFallback, viewerZoom,
                 viewerFitWidth, viewerFullscreen, chatError, citedDoc, askVars, scrollRequests,
                 platformVars, libVars>>
  /\ IF route' = "chats" THEN PlainEffect ELSE UNCHANGED effectVars

\* The response arrives with status 200 and a descriptor (lines 188-192, 197).
LoadPreviewOk(d) ==
  /\ route = "chats"
  /\ d \in fetches
  /\ fetches' = fetches \ {d}
  /\ viewerZoom' = ZoomDefault
  /\ viewerFitWidth' = TRUE
  /\ pdfUseIframeFallback' = FALSE
  /\ previewData' = Descriptor(d)
  /\ previewLoading' = FALSE
  /\ UNCHANGED <<route, sessionVars, activeDocumentId, selectedSource, pdfjsApi,
                 viewerFullscreen, chatError, platformVars, citedDoc, askVars, scrollRequests, libVars>>
  /\ RenderEffect(pdfBusy, NoError, renders, canvas, textLayer)

\* The response arrives with status 401 (lines 180-184, 197).
LoadPreviewUnauthorized(d) ==
  /\ route = "chats"
  /\ d \in fetches
  /\ fetches' = fetches \ {d}
  /\ ClearSession
  /\ route' = "signin"
  /\ previewLoading' = FALSE
  /\ UNCHANGED <<activeDocumentId, previewData, selectedSource, pdfjsApi,
                 pdfUseIframeFallback, viewerZoom, viewerFitWidth,
                 viewerFullscreen, chatError, effectVars, platformVars,
                 citedDoc, askVars, scrollRequests, libVars>>

\* LoadPreviewFailed without the message of line 194.
LoadPreviewFailedSilently(d) ==
  /\ route = "chats"
  /\ d \in fetches
  /\ fetches' = fetches \ {d}
  /\ previewLoading' = FALSE
  /\ UNCHANGED <<route, sessionVars, activeDocumentId, previewData,
                 selectedSource, pdfjsApi, pdfUseIframeFallback, viewerZoom,
                 viewerFitWidth, viewerFullscreen, chatError, platformVars,
                 citedDoc, askVars, scrollRequests, libVars>>
  /\ PlainEffect

\* Another status, or fetch rejects (lines 185-187, 193-198).
LoadPreviewFailed(d) ==
  /\ route = "chats"
  /\ d \in fetches
  /\ fetches' = fetches \ {d}
  /\ chatError' = PreviewLoadError
  /\ previewLoading' = FALSE
  /\ UNCHANGED <<route, sessionVars, activeDocumentId, previewData,
                 selectedSource, pdfjsApi, pdfUseIframeFallback, viewerZoom,
                 viewerFitWidth, viewerFullscreen, platformVars,
                 citedDoc, askVars, scrollRequests, libVars>>
  /\ PlainEffect

(***************************************************************************)
(* ChatsPage: loadPdfJs (lines 135-159).                                   *)
(***************************************************************************)
pdfJsFrame ==
  <<route, sessionVars, activeDocumentId, previewLoading, previewData,
    selectedSource, pdfUseIframeFallback, viewerZoom, viewerFitWidth,
    viewerFullscreen, chatError, fetches, platformVars, citedDoc, askVars, scrollRequests,
    libVars>>

\* import("pdfjs-dist") resolves (lines 140-147).
PdfJsLoaded ==
  /\ route = "chats"
  /\ pdfjsApi = "loading"
  /\ pdfjsApi' = "ready"
  /\ UNCHANGED pdfJsFrame
  /\ PlainEffect

\* import("pdfjs-dist") rejects (lines 148-152).
PdfJsFailed ==
  /\ route = "chats"
  /\ pdfjsApi = "loading"
  /\ pdfjsApi' = "failed"
  /\ UNCHANGED pdfJsFrame
  /\ RenderEffect(pdfBusy, RendererLoadError, renders, canvas, textLayer)

(***************************************************************************)
(* ChatsPage: the user's controls.                                         *)
(***************************************************************************)
controlFrame ==
  <<route, sessionVars, activeDocumentId, previewLoading, previewData,
    pdfjsApi, pdfUseIframeFallback, viewerFullscreen, chatError, fetches,
    platformVars, libVars>>

HandleCitationClickRetriesNative(c) ==
  /\ route = "chats"
  /\ c \in shownSources
  /\ selectedSource' = c
  /\ scrollRequests' = scrollRequests + 1
  /\ citedDoc' = activeDocumentId
  /\ pdfUseIframeFallback' = FALSE
  /\ UNCHANGED <<route, sessionVars, activeDocumentId, previewLoading,
                 previewData, pdfjsApi, viewerFullscreen, chatError, fetches,
                 platformVars, libVars, viewerZoom, viewerFitWidth, askVars>>
  /\ PlainEffect

\* The body of handleCitationClick (lines 382-392): the citation is recorded,
\* the viewer is scrolled into view and its scroll container to the top (the
\* elements of both refs are in the tree while ChatsPage is).
SelectCitation(c) ==
  /\ selectedSource' = c
  /\ scrollRequests' = scrollRequests + 1
  /\ citedDoc' = activeDocumentId

HandleCitationClickNoScroll(c) ==
  /\ route = "chats"
  /\ c \in shownSources
  /\ selectedSource' = c
  /\ citedDoc' = activeDocumentId
  /\ UNCHANGED <<controlFrame, viewerZoom, viewerFitWidth, askVars, scrollRequests>>
  /\ PlainEffect

\* A citation badge of an answer is clicked (lines 611-616).
HandleCitationClick(c) ==
  /\ route = "chats"
  /\ c \in shownSources
  /\ SelectCitation(c)
  /\ UNCHANGED <<controlFrame, viewerZoom, viewerFitWidth, askVars>>
  /\ PlainEffect

(***************************************************************************)
(* ChatsPage: handleSend (lines 397-482), for a message that is not blank. *)
(***************************************************************************)
AskError == "Failed to get answer."
NoDocumentError == "Please open chat from a selected document."

\* The sources an answer can carry, in the order the server lists them.
AnswerSources ==
  { <<>>,
    <<[page |-> 2, snippet |-> SnippetRevenue, id |-> "c2"]>>,
    <<[page |-> 7, snippet |-> SnippetNone, id |-> "c7"],
      [page |-> 2, snippet |-> SnippetRevenue, id |-> "c2"]>> }

sendFrame ==
  <<activeDocumentId, previewLoading, previewData, pdfjsApi,
    pdfUseIframeFallback, viewerZoom, viewerFitWidth, viewerFullscreen,
    fetches, platformVars, libVars>>

\* handleSend up to its await (lines 397-420).
HandleSend(live) ==
  /\ route = "chats"
  /\ IF ~live
     THEN /\ ClearLocalSession
          /\ route' = "signin"
          /\ UNCHANGED <<chatError, askVars>>
     ELSE IF activeDocumentId = NoDoc
     THEN /\ chatError' = NoDocumentError
          /\ UNCHANGED <<route, sessionVars, askVars>>
     ELSE /\ chatError' = NoError
          /\ sending' = TRUE
          /\ asks' = asks + 1
          /\ UNCHANGED <<route, sessionVars, shownSources, answers>>
  /\ UNCHANGED <<sendFrame, selectedSource, citedDoc, scrollRequests>>
  /\ IF route' = "chats" THEN PlainEffect ELSE UNCHANGED effectVars

\* The answer arrives with status 2xx (lines 437-466, 479-481): its first
\* source, if it has one, is selected.
AnswerArrives(srcs) ==
  /\ route = "chats"
  /\ asks > 0
  /\ asks' = asks - 1
  /\ sending' = FALSE
  /\ shownSources' = shownSources \cup {srcs[i] : i \in 1..Len(srcs)}
  /\ answers' = answers + 1
  /\ IF Len(srcs) > 0
     THEN SelectCitation(srcs[1])
     ELSE UNCHANGED <<selectedSource, scrollRequests, citedDoc>>
  /\ UNCHANGED <<route, sessionVars, sendFrame, chatError>>
  /\ PlainEffect

\* Another status, or fetch rejects (lines 433-435, 467-481).
AnswerFails ==
  /\ route = "chats"
  /\ asks > 0
  /\ asks' = asks - 1
  /\ sending' = FALSE
  /\ chatError' = AskError
  /\ UNCHANGED <<route, sessionVars, sendFrame, shownSources, answers,
                 selectedSource, citedDoc, scrollRequests>>
  /\ PlainEffect

\* Zoom out (line 687).
ViewerZoomOut ==
  /\ route = "chats"
  /\ viewerZoom' = ZoomOut(viewerZoom)
  /\ UNCHANGED <<controlFrame, selectedSource, citedDoc, askVars, scrollRequests, viewerFitWidth>>
  /\ PlainEffect

\* Zoom in (line 696).
ViewerZoomIn ==
  /\ route = "chats"
  /\ viewerZoom' = ZoomIn(viewerZoom)
  /\ UNCHANGED <<controlFrame, selectedSource, citedDoc, askVars, scrollRequests, viewerFitWidth>>
  /\ PlainEffect

\* Fit: On / Fit: Off (line 704).
ToggleViewerFitWidth ==
  /\ route = "chats"
  /\ viewerFitWidth' = ~viewerFitWidth
  /\ UNCHANGED <<controlFrame, selectedSource, citedDoc, askVars, scrollRequests, viewerZoom>>
  /\ PlainEffect


(***************************************************************************)
(* ChatsPage: renderPdfVerification after its first await (lines 255-323). *)
(* A render in flight is a record: what its closure captured when it was   *)
(* issued (doc, reqPage, snippet, zoom, fit), where it is suspended (pc),  *)
(* and what it has computed (page, scale).                                 *)
(* getDocument and getPage are one suspension ("load"), as are             *)
(* getTextContent and renderTextLayer ("text"): the code between them      *)
(* reads and writes nothing another handler can see.                       *)
(***************************************************************************)
renderFrame ==
  <<route, sessionVars, activeDocumentId, previewLoading, previewData,
    selectedSource, pdfjsApi, viewerZoom, viewerFitWidth, viewerFullscreen,
    chatError, fetches, platformVars, citedDoc, askVars, scrollRequests, libVars>>

TargetPageUnclamped(reqPage, numPages) == reqPage

\* Math.min(pageNumber, pdf.numPages) (line 256).
TargetPage(reqPage, numPages) == IF reqPage < numPages THEN reqPage ELSE numPages

\* The catch of lines 318-320 with the message shown but the strategy kept.
RenderCatchRaw(r) ==
  /\ UNCHANGED <<renderFrame, pdfUseIframeFallback>>
  /\ RenderEffect(FALSE, RenderFailedError, renders \ {r}, canvas, textLayer)

\* The catch of lines 318-320 without setPdfError.
RenderCatchNoMessage(r) ==
  /\ pdfUseIframeFallback' = TRUE
  /\ UNCHANGED renderFrame
  /\ RenderEffect(FALSE, pdfError, renders \ {r}, canvas, textLayer)

\* catch and finally (lines 318-323).
RenderCatch(r) ==
  /\ pdfUseIframeFallback' = TRUE
  /\ UNCHANGED renderFrame
  /\ RenderEffect(FALSE, RenderFailedError, renders \ {r}, canvas, textLayer)

\* getDocument and getPage have resolved: lines 256-279 run.  With the canvas
\* out of the tree pdfCanvasRef.current is null and canvas.getContext throws.
RenderLoaded(r) ==
  /\ route = "chats"
  /\ r \in renders
  /\ r.pc = "load"
  /\ IF ~CanvasMounted
     THEN RenderCatch(r)
     ELSE LET page == TargetPage(r.reqPage, NumPages(r.doc))
              scale == ComputeScale(r.zoom, r.fit, clientWidth, PageWidth(r.doc))
              next == [r EXCEPT !.pc = "paint", !.page = page, !.scale = scale]
          IN /\ UNCHANGED <<renderFrame, pdfUseIframeFallback>>
             /\ RenderEffect(pdfBusy, pdfError, (renders \ {r}) \cup {next},
                             [sized |-> r.id, att |-> 0, doc |-> NoDoc,
                              page |-> 0, scale |-> NoScale],
                             textLayer)

\* page.render has resolved: lines 281-285 run.
RenderPainted(r) ==
  /\ route = "chats"
  /\ r \in renders
  /\ r.pc = "paint"
  /\ UNCHANGED <<renderFrame, pdfUseIframeFallback>>
  /\ LET next == [r EXCEPT !.pc = "text"]
     IN IF r.detached
        THEN RenderEffect(pdfBusy, pdfError, (renders \ {r}) \cup {next},
                          canvas, textLayer)
        ELSE RenderEffect(pdfBusy, pdfError, (renders \ {r}) \cup {next},
                          [canvas EXCEPT !.att = r.id, !.doc = r.doc,
                                         !.page = r.page, !.scale = r.scale],
                          [sized |-> r.id, spans |-> <<>>])

\* getTextContent and renderTextLayer have resolved: the spans of the page are
\* in the container, lines 292-317 style the matches, finally clears pdfBusy.
RenderTextDone(r) ==
  /\ route = "chats"
  /\ r \in renders
  /\ r.pc = "text"
  /\ UNCHANGED <<renderFrame, pdfUseIframeFallback>>
  /\ IF r.detached
     THEN RenderEffect(FALSE, pdfError, renders \ {r}, canvas, textLayer)
     ELSE RenderEffect(FALSE, pdfError, renders \ {r}, canvas,
                       [textLayer EXCEPT !.spans =
                          ApplyHighlights(textLayer.spans \o PageSpans(r.id, r.doc, r.page),
                                          r.snippet)])

\* One of the awaited promises rejects: the document does not parse, the page
\* does not render, the text layer fails.
RenderFails(r) ==
  /\ route = "chats"
  /\ r \in renders
  /\ RenderCatch(r)

(***************************************************************************)
(* ChatsPage: fullscreen (lines 339-360) and the container's width.        *)
(***************************************************************************)
fsFrame ==
  <<route, sessionVars, activeDocumentId, previewLoading, previewData,
    selectedSource, pdfjsApi, pdfUseIframeFallback, viewerZoom,
    viewerFitWidth, chatError, fetches, effectVars, citedDoc, askVars, scrollRequests, libVars>>

ToggleViewerFullscreenOptimistic(granted) ==
  /\ route = "chats"
  /\ IF granted
     THEN /\ fsEvents < MaxFsEvents
          /\ fullscreenElement' = ~fullscreenElement
          /\ fsEvents' = fsEvents + 1
     ELSE UNCHANGED <<fullscreenElement, fsEvents>>
  /\ viewerFullscreen' = ~viewerFullscreen
  /\ UNCHANGED <<fsFrame, clientWidth>>

\* toggleViewerFullscreen (lines 347-360): the request is made of the platform,
\* which carries it out and queues its notification (granted) or refuses it,
\* the promise rejecting into the empty catch.  Nothing runs after the await.
ToggleViewerFullscreen(granted) ==
  /\ route = "chats"
  /\ IF granted
     THEN /\ fsEvents < MaxFsEvents
          /\ fullscreenElement' = ~fullscreenElement
          /\ fsEvents' = fsEvents + 1
     ELSE UNCHANGED <<fullscreenElement, fsEvents>>
  /\ UNCHANGED <<fsFrame, viewerFullscreen, clientWidth>>

\* The platform leaves fullscreen by itself (Escape).
PlatformExitsFullscreen ==
  /\ route = "chats"
  /\ fullscreenElement
  /\ fsEvents < MaxFsEvents
  /\ fullscreenElement' = FALSE
  /\ fsEvents' = fsEvents + 1
  /\ UNCHANGED <<fsFrame, viewerFullscreen, clientWidth>>

\* onFsChange (lines 340-342).
OnFsChange ==
  /\ route = "chats"
  /\ fsEvents > 0
  /\ fsEvents' = fsEvents - 1
  /\ viewerFullscreen' = fullscreenElement
  /\ UNCHANGED <<fsFrame, clientWidth, fullscreenElement>>

\* The viewer's container is laid out anew (window resized, fullscreen).
Resize(w) ==
  /\ route = "chats"
  /\ w # clientWidth
  /\ clientWidth' = w
  /\ UNCHANGED <<fsFrame, viewerFullscreen, fullscreenElement, fsEvents>>

\* Documents entry of the side bar (line 504): ChatsPage unmounts.
GoDocuments ==
  /\ route = "chats"
  /\ route' = "documents"
  /\ activeDocumentId' = NoDoc
  /\ previewLoading' = FALSE
  /\ previewData' = NoData
  /\ selectedSource' = NoSource
  /\ pdfjsApi' = "none"
  /\ pdfBusy' = FALSE
  /\ pdfError' = NoError
  /\ pdfUseIframeFallback' = FALSE
  /\ viewerZoom' = ZoomDefault
  /\ viewerFitWidth' = TRUE
  /\ viewerFullscreen' = FALSE
  /\ chatError' = NoError
  /\ fetches' = {}
  /\ renders' = {}
  /\ attempts' = 0
  /\ canvas' = BlankCanvas
  /\ textLayer' = BlankTextLayer
  /\ fullscreenElement' = FALSE
  /\ fsEvents' = 0
  /\ citedDoc' = NoDoc
  /\ sending' = FALSE
  /\ asks' = 0
  /\ shownSources' = {}
  /\ answers' = 0
  /\ scrollRequests' = 0
  /\ UNCHANGED <<sessionVars, clientWidth, libVars>>

(***************************************************************************)
(* DocumentsPage: the preview dialog (documents/page.js).                  *)
(***************************************************************************)
\* openPreview up to its await (lines 249-262).
OpenPreview(d, live) ==
  /\ route = "documents"
  /\ IF ~live
     THEN /\ route' = "signin"
          /\ ClearLocalSession
          /\ UNCHANGED <<libVars, chatVars>>
     ELSE /\ libPreviewLoading' = TRUE
          /\ libError' = NoError
          /\ libFetches' = libFetches \cup {d}
          /\ libRequested' = d
          /\ UNCHANGED <<route, sessionVars, libPreviewData, previewZoom,
                         previewFitWidth, previewFullscreen, chatVars>>

\* Status 200 (lines 272-275, 280).
OpenPreviewOk(d) ==
  /\ route = "documents"
  /\ d \in libFetches
  /\ libFetches' = libFetches \ {d}
  /\ previewZoom' = ZoomDefault
  /\ previewFitWidth' = TRUE
  /\ previewFullscreen' = FALSE
  /\ libPreviewData' = Descriptor(d)
  /\ libPreviewLoading' = FALSE
  /\ UNCHANGED <<route, sessionVars, libError, libRequested, chatVars>>

\* Status 401 (lines 264-268, 280).
OpenPreviewUnauthorized(d) ==
  /\ route = "documents"
  /\ d \in libFetches
  /\ libFetches' = libFetches \ {d}
  /\ ClearSession
  /\ route' = "signin"
  /\ libPreviewLoading' = FALSE
  /\ UNCHANGED <<libPreviewData, previewZoom, previewFitWidth,
                 previewFullscreen, libError, libRequested, chatVars>>

\* Another status, or fetch rejects (lines 269-271, 276-281).
OpenPreviewFailed(d) ==
  /\ route = "documents"
  /\ d \in libFetches
  /\ libFetches' = libFetches \ {d}
  /\ libError' = LibPreviewLoadError
  /\ libPreviewLoading' = FALSE
  /\ UNCHANGED <<route, sessionVars, libPreviewData, previewZoom,
                 previewFitWidth, previewFullscreen, libRequested, chatVars>>

\* The dialog and its buttons exist while previewData is set (line 484).
DialogShown == route = "documents" /\ libPreviewData # NoData

dialogFrame ==
  <<route, sessionVars, libPreviewLoading, libError, libFetches, chatVars>>

\* Zoom out (line 499).
PreviewZoomOut ==
  /\ DialogShown
  /\ previewZoom' = ZoomOut(previewZoom)
  /\ UNCHANGED <<dialogFrame, libRequested, libPreviewData, previewFitWidth, previewFullscreen>>

\* Zoom in (line 508).
PreviewZoomIn ==
  /\ DialogShown
  /\ previewZoom' = ZoomIn(previewZoom)
  /\ UNCHANGED <<dialogFrame, libRequested, libPreviewData, previewFitWidth, previewFullscreen>>

\* Fit: On / Fit: Off (line 516).
TogglePreviewFitWidth ==
  /\ DialogShown
  /\ previewFitWidth' = ~previewFitWidth
  /\ UNCHANGED <<dialogFrame, libRequested, libPreviewData, previewZoom, previewFullscreen>>

\* Toggle full screen (line 534).
TogglePreviewFullscreen ==
  /\ DialogShown
  /\ previewFullscreen' = ~previewFullscreen
  /\ UNCHANGED <<dialogFrame, libRequested, libPreviewData, previewZoom, previewFitWidth>>

\* Close preview (line 542).
ClosePreview ==
  /\ DialogShown
  /\ libPreviewData' = NoData
  /\ libRequested' = NoDoc
  /\ UNCHANGED <<dialogFrame, previewZoom, previewFitWidth, previewFullscreen>>

(***************************************************************************)
(* The specification.  Spec is the whole program, with the number of user  *)
(* gestures per mounted page bounded.                                      *)
(***************************************************************************)
\* A step the user takes.
Gesture(A) == gestures < MaxGestures /\ A /\ gestures' = gestures + 1 /\ UNCHANGED pureVars
\* A step of the platform, the network or a library.
Completion(A) == A /\ UNCHANGED <<gestures, pureVars>>
\* A page mounts.
Mount(A) == A /\ gestures' = 0 /\ UNCHANGED pureVars

Next ==
  \/ \E d \in Docs \cup {NoDoc}, live \in BOOLEAN : Mount(GoChat(d, live))
  \/ \E d \in Docs \cup {NoDoc}, live \in BOOLEAN : Gesture(ChangeDocument(d, live))
  \/ \E d \in Docs : Completion(LoadPreviewOk(d))
  \/ \E d \in Docs : Completion(LoadPreviewUnauthorized(d))
  \/ \E d \in Docs : Completion(LoadPreviewFailed(d))
  \/ Completion(PdfJsLoaded)
  \/ Completion(PdfJsFailed)
  \/ \E c \in Citations : Gesture(HandleCitationClick(c))
  \/ \E live \in BOOLEAN : Gesture(HandleSend(live))
  \/ \E srcs \in AnswerSources : Completion(AnswerArrives(srcs))
  \/ Completion(AnswerFails)
  \/ Gesture(ViewerZoomOut)
  \/ Gesture(ViewerZoomIn)
  \/ Gesture(ToggleViewerFitWidth)
  \/ \E r \in renders : Completion(RenderLoaded(r))
  \/ \E r \in renders : Completion(RenderPainted(r))
  \/ \E r \in renders : Completion(RenderTextDone(r))
  \/ \E r \in renders : Completion(RenderFails(r))
  \/ \E granted \in BOOLEAN : Gesture(ToggleViewerFullscreen(granted))
  \/ Gesture(PlatformExitsFullscreen)
  \/ Completion(OnFsChange)
  \/ \E w \in Widths : Gesture(Resize(w))
  \/ Mount(GoDocuments)
  \/ \E d \in Docs, live \in BOOLEAN : Gesture(OpenPreview(d, live))
  \/ \E d \in Docs : Completion(OpenPreviewOk(d))
  \/ \E d \in Docs : Completion(OpenPreviewUnauthorized(d))
  \/ \E d \in Docs : Completion(OpenPreviewFailed(d))
  \/ Gesture(PreviewZoomOut)
  \/ Gesture(PreviewZoomIn)
  \/ Gesture(TogglePreviewFitWidth)
  \/ Gesture(TogglePreviewFullscreen)
  \/ Gesture(ClosePreview)

Spec == Init /\ [][Next]_vars


(***************************************************************************)
(* SpecLive: the chat of one document with the controls of its viewer, and *)
(* the progress the runtime gives.  A step of pdf.js (the document loads,  *)
(* the page paints, the text layer is built, or one of these rejects), the *)
(* dynamic import of the library and a queued fullscreenchange event are   *)
(* not postponed for ever.  Nothing obliges the user to act or the server  *)
(* to answer: the request of loadPreview is a plain fetch call (lines      *)
(* 176-178) with no timer beside it.                                       *)
(***************************************************************************)
RenderIds == 1..MaxAttempts

RenderStep(id) ==
  \E r \in renders :
    /\ r.id = id
    /\ \/ Completion(RenderLoaded(r))
       \/ Completion(RenderPainted(r))
       \/ Completion(RenderTextDone(r))
       \/ Completion(RenderFails(r))

PdfJsSettles == Completion(PdfJsLoaded) \/ Completion(PdfJsFailed)

Fairness ==
  /\ \A id \in RenderIds : WF_vars(RenderStep(id))
  /\ WF_vars(PdfJsSettles)
  /\ WF_vars(Completion(OnFsChange))

NextLive ==
  \/ \E d \in Docs \cup {NoDoc}, live \in BOOLEAN : Mount(GoChat(d, live))
  \/ \E d \in Docs : Completion(LoadPreviewOk(d))
  \/ \E d \in Docs : Completion(LoadPreviewUnauthorized(d))
  \/ \E d \in Docs : Completion(LoadPreviewFailed(d))
  \/ Completion(PdfJsLoaded)
  \/ Completion(PdfJsFailed)
  \/ Gesture(ViewerZoomOut)
  \/ Gesture(ViewerZoomIn)
  \/ Gesture(ToggleViewerFitWidth)
  \/ \E r \in renders : Completion(RenderLoaded(r))
  \/ \E r \in renders : Completion(RenderPainted(r))
  \/ \E r \in renders : Completion(RenderTextDone(r))
  \/ \E r \in renders : Completion(RenderFails(r))
  \/ \E granted \in BOOLEAN : Gesture(ToggleViewerFullscreen(granted))
  \/ Completion(OnFsChange)
  \/ Mount(GoDocuments)

SpecLive == Init /\ [][NextLive]_vars /\ Fairness

(***************************************************************************)
(* SpecViewport: the viewport controls of both pages and the opening of    *)
(* documents, with no bound on the number of gestures.  pdf.js is still    *)
(* loading, so no render is issued.                                        *)
(***************************************************************************)
Free(A) == A /\ UNCHANGED <<gestures, pureVars>>

NextViewport ==
  \/ \E d \in Docs \cup {NoDoc}, live \in BOOLEAN : Free(GoChat(d, live))
  \/ \E d \in Docs \cup {NoDoc}, live \in BOOLEAN : Free(ChangeDocument(d, live))
  \/ \E d \in Docs : Free(LoadPreviewOk(d))
  \/ \E d \in Docs : Free(LoadPreviewUnauthorized(d))
  \/ \E d \in Docs : Free(LoadPreviewFailed(d))
  \/ Free(ViewerZoomOut)
  \/ Free(ViewerZoomIn)
  \/ Free(ToggleViewerFitWidth)
  \/ \E granted \in BOOLEAN : Free(ToggleViewerFullscreen(granted))
  \/ Free(PlatformExitsFullscreen)
  \/ Free(OnFsChange)
  \/ Free(GoDocuments)
  \/ \E d \in Docs, live \in BOOLEAN : Free(OpenPreview(d, live))
  \/ \E d \in Docs : Free(OpenPreviewOk(d))
  \/ \E d \in Docs : Free(OpenPreviewUnauthorized(d))
  \/ \E d \in Docs : Free(OpenPreviewFailed(d))
  \/ Free(PreviewZoomOut)
  \/ Free(PreviewZoomIn)
  \/ Free(TogglePreviewFitWidth)
  \/ Free(TogglePreviewFullscreen)
  \/ Free(ClosePreview)

SpecViewport == Init /\ [][NextViewport]_vars

(***************************************************************************)
(* SpecDocx: DocxPreview (src/unnamed/part_001, lines 5-78) taken alone.   *)
(* A call of renderDocx is [id, url, alive, pc]: alive is the variable of  *)
(* the effect that made the call, which its cleanup sets false; pc is      *)
(* "fetch" while the import, the fetch and arrayBuffer are awaited (lines  *)
(* 27-32) and "render" while renderAsync is (lines 38-47).                 *)
(***************************************************************************)
MaxLoads == 3
DocxUrls == {NoUrl, "a.docx", "b.docx"}
DocxFetchError == "Could not fetch DOCX file."
DocxRenderError == "DOCX preview failed."

docxFrame ==
  <<route, sessionVars, gestures, chatVars, libVars, scaleVars, matchVars,
    tokenVars>>

\* The cleanup of the effect (lines 62-64).
Superseded(loads) == {[l EXCEPT !.alive = FALSE] : l \in loads}

\* The effect of lines 15-65 up to the first await of renderDocx, with u the
\* fileUrl prop and loads the calls still awaited.
RenderDocxStart(u, loads) ==
  IF u = NoUrl
  THEN /\ docxLoads' = loads
       /\ UNCHANGED <<docxLoading, docxError, docxCount>>
  ELSE /\ docxCount < MaxLoads
       /\ docxLoading' = TRUE
       /\ docxError' = NoError
       /\ docxCount' = docxCount + 1
       /\ docxLoads' = loads \cup {[id |-> docxCount + 1, url |-> u,
                                    alive |-> TRUE, pc |-> "fetch"]}

InitDocx ==
  /\ route = "documents"
  /\ SessionStored
  /\ gestures = 0
  /\ ChatInit
  /\ LibInit
  /\ scaleIn = ScaleIdle
  /\ scaleOut = NoScale
  /\ matchIn = MatchIdle
  /\ matchOut = NoMatch
  /\ TokenIdle
  /\ docxMounted = TRUE
  /\ fileUrl \in DocxUrls
  /\ docxContainer = EmptyContainer
  /\ docxCount = IF fileUrl = NoUrl THEN 0 ELSE 1
  /\ docxLoading = (fileUrl # NoUrl)
  /\ docxError = NoError
  /\ docxLoads = IF fileUrl = NoUrl THEN {}
                 ELSE {[id |-> 1, url |-> fileUrl, alive |-> TRUE, pc |-> "fetch"]}

\* The parent passes another fileUrl: the cleanup runs, then the effect.
SetFileUrl(u) ==
  /\ docxMounted
  /\ u # fileUrl
  /\ fileUrl' = u
  /\ RenderDocxStart(u, Superseded(docxLoads))
  /\ UNCHANGED <<docxFrame, docxMounted, docxContainer>>

\* The parent drops the component: the cleanup runs and the ref is null.
DocxUnmount ==
  /\ docxMounted
  /\ docxMounted' = FALSE
  /\ docxLoads' = Superseded(docxLoads)
  /\ UNCHANGED <<docxFrame, fileUrl, docxLoading, docxError, docxContainer,
                 docxCount>>

\* finally (lines 55-59) for a call that returns.
DocxFinally(l, err) ==
  /\ docxLoads' = docxLoads \ {l}
  /\ docxLoading' = IF l.alive THEN FALSE ELSE docxLoading
  /\ docxError' = IF l.alive THEN err ELSE docxError

\* The bytes are there (line 32): the check of lines 33-35, then line 37 and
\* the call of renderAsync.
DocxFetched(l) ==
  /\ l \in docxLoads
  /\ l.pc = "fetch"
  /\ IF ~l.alive \/ ~docxMounted
     THEN DocxFinally(l, docxError) /\ UNCHANGED docxContainer
     ELSE /\ docxContainer' = [shows |-> NoUrl, by |-> l.id]
          /\ docxLoads' = (docxLoads \ {l}) \cup {[l EXCEPT !.pc = "render"]}
          /\ UNCHANGED <<docxLoading, docxError>>
  /\ UNCHANGED <<docxFrame, docxMounted, fileUrl, docxCount>>

\* The import or the fetch rejects, or the status is not ok (lines 27-31,
\* 48-54).
DocxFetchFails(l) ==
  /\ l \in docxLoads
  /\ l.pc = "fetch"
  /\ DocxFinally(l, DocxFetchError)
  /\ UNCHANGED <<docxFrame, docxMounted, fileUrl, docxContainer, docxCount>>

\* renderAsync resolves: the library has put the document in the element it
\* was handed at line 38, whatever became of alive since.
DocxRendered(l) ==
  /\ l \in docxLoads
  /\ l.pc = "render"
  /\ docxContainer' = [shows |-> l.url, by |-> l.id]
  /\ DocxFinally(l, docxError)
  /\ UNCHANGED <<docxFrame, docxMounted, fileUrl, docxCount>>

\* renderAsync rejects (lines 48-54).
DocxRenderFails(l) ==
  /\ l \in docxLoads
  /\ l.pc = "render"
  /\ DocxFinally(l, DocxRenderError)
  /\ UNCHANGED <<docxFrame, docxMounted, fileUrl, docxContainer, docxCount>>

NextDocx ==
  \/ \E u \in DocxUrls : SetFileUrl(u)
  \/ DocxUnmount
  \/ \E l \in docxLoads : DocxFetched(l)
  \/ \E l \in docxLoads : DocxFetchFails(l)
  \/ \E l \in docxLoads : DocxRendered(l)
  \/ \E l \in docxLoads : DocxRenderFails(l)

SpecDocx == InitDocx /\ [][NextDocx]_vars

(***************************************************************************)
(* SpecToken: getValidAccessToken (src/unnamed/part_005, lines 48-71)      *)
(* taken alone, over the tokens localStorage may hold and clock readings   *)
(* on both sides of their expiry.                                          *)
(***************************************************************************)
ExpiryMargin == 5
TokenExps == -1..12
TokenNows == 0..6

NoExpToken == [parsed |-> TRUE, hasExp |-> FALSE, numeric |-> FALSE, exp |-> 0]
TextExpToken == [parsed |-> TRUE, hasExp |-> TRUE, numeric |-> FALSE, exp |-> 0]
Payloads ==
  {OpaqueToken, NoExpToken, TextExpToken}
    \cup {[parsed |-> TRUE, hasExp |-> TRUE, numeric |-> TRUE, exp |-> e] :
            e \in TokenExps}

\* Number(payload?.exp || 0) (line 59): a number, or NaN.
NumberOfExp(p) ==
  IF ~p.parsed \/ ~p.hasExp THEN [nan |-> FALSE, n |-> 0]
  ELSE IF ~p.numeric THEN [nan |-> TRUE, n |-> 0]
  ELSE [nan |-> FALSE, n |-> p.exp]

\* !exp (line 60).
Falsy(x) == x.nan \/ x.n = 0

\* The comparison without the five seconds.
TokenExpiredNoMargin(exp, now) == exp <= now

\* exp <= now + 5 (line 65).
TokenExpired(exp, now) == exp <= now + ExpiryMargin

InitToken ==
  /\ route = "documents"
  /\ gestures = 0
  /\ ChatInit
  /\ LibInit
  /\ scaleIn = ScaleIdle
  /\ scaleOut = NoScale
  /\ matchIn = MatchIdle
  /\ matchOut = NoMatch
  /\ DocxIdle
  /\ tokenIn \in [stored : {"none", "valid"}, payload : Payloads, now : TokenNows]
  /\ tokenIn.stored = "none" => tokenIn.payload = OpaqueToken
  /\ tokenOut = NotCalled
  /\ access_token = tokenIn.stored
  /\ current_user = "set"
  /\ auth_mode = "set"

Returned(t) == [called |-> TRUE, token |-> t]

\* One call, clock at tokenIn.now.
GetValidAccessToken ==
  /\ ~tokenOut.called
  /\ IF access_token = "none"
     THEN tokenOut' = Returned("none") /\ UNCHANGED sessionVars
     ELSE LET exp == NumberOfExp(tokenIn.payload)
          IN IF Falsy(exp)
             THEN tokenOut' = Returned(access_token) /\ UNCHANGED sessionVars
             ELSE IF TokenExpired(exp.n, tokenIn.now)
             THEN ClearLocalSession /\ tokenOut' = Returned("none")
             ELSE tokenOut' = Returned(access_token) /\ UNCHANGED sessionVars
  /\ UNCHANGED <<route, gestures, chatVars, libVars, scaleVars, matchVars,
                 docxVars, tokenIn>>

NextToken == GetValidAccessToken

SpecToken == InitToken /\ [][NextToken]_vars

(***************************************************************************)
(* SpecScale: the scale computation of lines 264-270 on its own, over the  *)
(* zoom values the buttons reach, both fit modes, and container and page   *)
(* widths that include the degenerate measurements.                        *)
(***************************************************************************)
ZoomValues == {z \in ZoomMin..ZoomMax : z % ZoomStep = 0}
ContainerWidths == {0, 23, 24, 25, 204, 324, 624, 924, 1824, 2424}
NativeWidths == {0, 300, 600}

InitScale ==
  /\ route = "chats"
  /\ SessionStored
  /\ gestures = 0
  /\ ChatInit
  /\ LibInit
  /\ scaleIn \in [zoom : ZoomValues, fit : BOOLEAN, cw : ContainerWidths,
                  pw : NativeWidths]
  /\ scaleOut = NoScale
  /\ matchIn = MatchIdle
  /\ matchOut = NoMatch
  /\ DocxIdle
  /\ TokenIdle

\* Lines 264-270 run on the inputs.
MeasureScale ==
  /\ scaleOut = NoScale
  /\ scaleOut' = ComputeScale(scaleIn.zoom, scaleIn.fit, scaleIn.cw, scaleIn.pw)
  /\ UNCHANGED <<route, sessionVars, gestures, chatVars, libVars, scaleIn, matchVars,
                 docxVars, tokenVars>>

NextScale == MeasureScale

SpecScale == InitScale /\ [][NextScale]_vars


(***************************************************************************)
(* SpecMatcher: the snippet matcher of lines 292-317 on its own, over the  *)
(* pages of three documents and snippets with short, repeated and          *)
(* capitalised words.                                                      *)
(***************************************************************************)
MatchDocs == {"report", "memo", "ledger"}
MatchPages == 1..4

InitMatcher ==
  /\ route = "chats"
  /\ SessionStored
  /\ gestures = 0
  /\ ChatInit
  /\ LibInit
  /\ scaleIn = ScaleIdle
  /\ scaleOut = NoScale
  /\ matchIn \in [doc : MatchDocs, page : MatchPages, snippet : Snippets]
  /\ matchOut = NoMatch
  /\ DocxIdle
  /\ TokenIdle

\* Lines 292-317 run on the spans renderTextLayer put in the container.
MatchSnippet ==
  /\ ~matchOut.done
  /\ LET spans == PageSpans(1, matchIn.doc, matchIn.page)
         tokens == SnippetTokens(matchIn.snippet)
         scored == Scored(spans, tokens)
     IN matchOut' = [done |-> TRUE,
                     tokens |-> tokens,
                     scores |-> [i \in 1..Len(spans) |-> scored[i].score],
                     spans |-> ApplyHighlights(spans, matchIn.snippet)]
  /\ UNCHANGED <<route, sessionVars, gestures, chatVars, libVars, scaleVars, matchIn,
                 docxVars, tokenVars>>

NextMatcher == MatchSnippet

SpecMatcher == InitMatcher /\ [][NextMatcher]_vars

(***************************************************************************)
(* Properties.                                                             *)
(***************************************************************************)
PdfShown ==
  route = "chats" /\ ~previewLoading /\ previewData # NoData
  /\ previewData.preview_type = "pdf"

\* The address the iframe of the compatible viewer is given (lines 739-741).
IframeUrl ==
  BuildPdfViewerUrl(previewData.id, selectedSource.page, viewerFitWidth, viewerZoom)

\* C1: once every render has settled, what the canvas and the text layer show
\* was drawn by the render requested last, in whatever order the renders of
\* one viewer completed.
LastRequestedWins ==
  (route = "chats" /\ renders = {} /\ canvas.att # 0)
    => /\ canvas.att = attempts
       /\ \A i \in 1..Len(textLayer.spans) : textLayer.spans[i].att = attempts

\* C2: while the viewer is in the compatible (iframe) viewer, a step either
\* commits a new document descriptor or leaves the viewer in the compatible
\* viewer, issues no native render and writes nothing to the canvas.
DescriptorCommitted ==
  \E d \in fetches :
    /\ fetches' = fetches \ {d}
    /\ previewData' = Descriptor(d)
    /\ ~previewLoading'

FallbackIsSticky ==
  [][(route = "chats" /\ route' = "chats" /\ pdfUseIframeFallback)
       => \/ DescriptorCommitted
          \/ /\ pdfUseIframeFallback'
             /\ attempts' = attempts
             /\ canvas' = canvas]_vars

\* A citation and a zoom change were made, one render was ever issued, and
\* the viewer is in the compatible viewer with the failure message.
FallbackWitness ==
  /\ PdfShown
  /\ pdfUseIframeFallback
  /\ pdfError = RenderFailedError
  /\ selectedSource # NoSource
  /\ gestures = MaxGestures
  /\ attempts = 1
  /\ renders = {}

\* C3: when the rendering library has failed to load and a PDF is shown, the
\* viewer is in the compatible viewer and carries a non-empty failure message.
LibraryFailureFallsBack ==
  (PdfShown /\ pdfjsApi = "failed")
    => (pdfUseIframeFallback /\ pdfError # NoError)

\* C4 as stated: the page shown is within 1..N in both viewers, the page the
\* compatible viewer is sent to included.
DisplayedPageInRange ==
  /\ canvas.att # 0 => canvas.page \in 1..NumPages(canvas.doc)
  /\ (PdfShown /\ pdfUseIframeFallback)
       => IframeUrl.page \in 1..NumPages(previewData.id)

\* C4: in the native viewer the page fetched and painted is min(page, N) and
\* lies in 1..N; it is N for a citation whose page is beyond N.
NativePageClamped ==
  /\ \A r \in renders :
       r.pc # "load" =>
         /\ r.page \in 1..NumPages(r.doc)
         /\ r.reqPage > NumPages(r.doc) => r.page = NumPages(r.doc)
         /\ r.reqPage <= NumPages(r.doc) => r.page = r.reqPage
  /\ canvas.att # 0 => canvas.page \in 1..NumPages(canvas.doc)
  /\ \A i \in 1..Len(textLayer.spans) :
       textLayer.spans[i].page \in 1..NumPages(textLayer.spans[i].doc)

\* The canvas shows the last page for a selected citation beyond the last page.
NativePageWitness ==
  /\ PdfShown
  /\ ~pdfUseIframeFallback
  /\ renders = {}
  /\ canvas.att = attempts
  /\ selectedSource.page > NumPages(canvas.doc)
  /\ canvas.page = NumPages(canvas.doc)

\* C5: in both viewers the zoom percentage is within [50,200]; a step changes
\* it by exactly 10, or leaves it, or (on an open or a page change) sets it
\* to 100.
ZoomWithinRange ==
  /\ viewerZoom >= 50 /\ viewerZoom <= 200
  /\ previewZoom >= 50 /\ previewZoom <= 200

ZoomStepOk(z, zn, opened) ==
  \/ zn = z
  \/ zn - z = 10
  \/ z - zn = 10
  \/ opened /\ zn = 100

ZoomStepsExact ==
  /\ ZoomStepOk(viewerZoom, viewerZoom', fetches' # fetches \/ route' # route)
  /\ ZoomStepOk(previewZoom, previewZoom', libFetches' # libFetches \/ route' # route)

ZoomContract == []ZoomWithinRange /\ [][ZoomStepsExact]_vars

\* The chat viewer was zoomed in to the upper limit with fit-width off.
ZoomWitness == route = "chats" /\ viewerZoom = 200 /\ ~viewerFitWidth

\* C6: the scale a render computes is within [0.6, 3.0], for every zoom, fit
\* mode, container width and native page width, the zero widths included.
ScaleWithinBounds ==
  scaleOut # NoScale
    => /\ scaleOut.d > 0
       /\ 10 * scaleOut.n >= 6 * scaleOut.d
       /\ scaleOut.n <= 3 * scaleOut.d

\* The scale was computed in fit mode for a page of native width zero.
ScaleWitness == scaleOut # NoScale /\ scaleIn.fit /\ scaleIn.pw = 0

\* s = clamp(n/d, 0.6, 3.0), for d > 0.
IsClampOf(s, n, d) ==
  /\ s.d > 0
  /\ \/ 10 * n < 6 * d /\ 5 * s.n = 3 * s.d
     \/ n > 3 * d /\ s.n = 3 * s.d
     \/ 10 * n >= 6 * d /\ n <= 3 * d /\ s.n * d = n * s.d

FitMeasurable == scaleIn.pw > 0 /\ scaleIn.cw > 24

OpenAlwaysResets ==
  [][/\ (route = "chats" /\ route' = "chats"
         /\ fetches' # fetches /\ fetches' \subseteq fetches)
          => /\ viewerZoom' = 100 /\ viewerFitWidth'
             /\ ~pdfUseIframeFallback' /\ pdfError' = NoError
     /\ (route = "documents" /\ route' = "documents"
         /\ libFetches' # libFetches /\ libFetches' \subseteq libFetches)
          => previewZoom' = 100 /\ previewFitWidth']_vars

\* C10: a render issued for a document for which no citation was selected
\* asks for page 1 and has no snippet to highlight.
UncitedOpensAtPageOne ==
  \A r \in renders :
    ~r.cited => /\ r.reqPage = 1
                /\ SnippetTokens(r.snippet) = <<>>
                /\ r.pc # "load" => r.page = 1

\* C11: the tokens of a snippet are its maximal runs of letters and digits
\* longer than 4 characters, lower-cased and in order; with no such run no
\* span is highlighted.
IsWordChar(c) == c \in Lower \cup Upper \cup Digits

IsRun(s, a, b) ==
  /\ a <= b
  /\ \A i \in a..b : IsWordChar(s[i])
  /\ a = 1 \/ ~IsWordChar(s[a - 1])
  /\ b = Len(s) \/ ~IsWordChar(s[b + 1])

LongRuns(s) ==
  {r \in (1..Len(s)) \X (1..Len(s)) : IsRun(s, r[1], r[2]) /\ r[2] - r[1] + 1 > 4}

TokensAreLongRuns ==
  matchOut.done =>
    LET s == matchIn.snippet
        runs == LongRuns(s)
        T == matchOut.tokens
    IN /\ Len(T) = Cardinality(runs)
       /\ \A r \in runs :
            LET k == Cardinality({q \in runs : q[1] < r[1]}) + 1
            IN T[k] = [i \in 1..(r[2] - r[1] + 1) |-> LowerOf(s[r[1] + i - 1])]
       /\ T = <<>> => \A i \in 1..Len(matchOut.spans) : ~matchOut.spans[i].hl

\* A snippet of short words only was matched against a page with text:
\* no token, no highlight.
NoTokenWitness ==
  /\ matchOut.done
  /\ matchIn.snippet = SnippetShort
  /\ matchOut.tokens = <<>>
  /\ Len(matchOut.spans) > 0
  /\ \A i \in 1..Len(matchOut.spans) : ~matchOut.spans[i].hl

\* C12: the highlighted spans are the first min(24, k) of the k spans with a
\* positive score, ordered by descending score and, at equal score, by
\* position in the page.
Highlighted == {i \in 1..Len(matchOut.spans) : matchOut.spans[i].hl}
Positive == {i \in 1..Len(matchOut.scores) : matchOut.scores[i] > 0}
RanksBefore(j, i) ==
  \/ matchOut.scores[j] > matchOut.scores[i]
  \/ matchOut.scores[j] = matchOut.scores[i] /\ j < i

TopRankedHighlighted ==
  matchOut.done =>
    /\ Highlighted \subseteq Positive
    /\ Cardinality(Highlighted) =
         (IF Cardinality(Positive) < 24 THEN Cardinality(Positive) ELSE 24)
    /\ \A i \in Positive \ Highlighted : \A j \in Highlighted : RanksBefore(j, i)

\* More than 24 spans score, 24 are highlighted, and a span of higher score
\* took the place of an earlier span of lower score.
TopRankedWitness ==
  /\ matchOut.done
  /\ Cardinality(Positive) > 24
  /\ Cardinality(Highlighted) = 24
  /\ \E i \in Positive \ Highlighted : \E j \in Highlighted : j > i

\* C13: the score of a span is the number of distinct tokens of the snippet
\* that its lower-cased text includes.
DistinctTokens == {matchOut.tokens[k] : k \in 1..Len(matchOut.tokens)}

ScoreCountsDistinctTokens ==
  matchOut.done =>
    \A i \in 1..Len(matchOut.scores) :
      matchOut.scores[i] =
        Cardinality({t \in DistinctTokens :
                       Includes(ToLowerCase(PageText(matchIn.doc, matchIn.page)[i]), t)})

\* C14: a step in which a render resumes that a newer request has superseded
\* changes neither the strategy, nor the error message, nor the busy flag,
\* nor the canvas, nor the text layer.
Resumes(r) == ~\E q \in renders' : q.id = r.id /\ q.pc = r.pc

SupersededIsSilent ==
  [][\A r \in renders :
       (route' = "chats" /\ r.id < attempts /\ Resumes(r))
         => /\ pdfUseIframeFallback' = pdfUseIframeFallback
            /\ pdfError' = pdfError
            /\ pdfBusy' = pdfBusy
            /\ canvas' = canvas
            /\ textLayer' = textLayer]_vars

\* C15: whenever the canvas shows a painted page, every span of the text
\* layer was put there by the render that painted it.
SurfaceAndOverlayAgree ==
  (route = "chats" /\ canvas.att # 0)
    => \A i \in 1..Len(textLayer.spans) :
         /\ textLayer.spans[i].att = canvas.att
         /\ textLayer.spans[i].page = canvas.page

\* C16: a descriptor is committed only for the document that is active when
\* its response is handled.
StaleDescriptorIgnored ==
  [][(route = "chats" /\ route' = "chats"
      /\ previewData' # previewData /\ previewData' # NoData)
       => previewData'.id = activeDocumentId']_vars

\* C17: a step that selects a citation records one of the citations shown,
\* makes the two scroll requests, and leaves zoom, fit-width, the fullscreen
\* flag, the descriptor and the strategy alone; the selected citation changes
\* in no other step of the page.
CitationSelectionFrame ==
  [][(route = "chats" /\ route' = "chats")
       => /\ selectedSource' # selectedSource => scrollRequests' # scrollRequests
          /\ scrollRequests' # scrollRequests
               => /\ scrollRequests' = scrollRequests + 1
                  /\ selectedSource' \in shownSources'
                  /\ viewerZoom' = viewerZoom
                  /\ viewerFitWidth' = viewerFitWidth
                  /\ viewerFullscreen' = viewerFullscreen
                  /\ previewData' = previewData
                  /\ pdfUseIframeFallback' = pdfUseIframeFallback]_vars

\* The only answer carried two citations: the first was selected when it
\* arrived, then the second was clicked.
CitationSelectionWitness ==
  /\ route = "chats"
  /\ answers = 1
  /\ scrollRequests = 2
  /\ Cardinality(shownSources) = 2
  /\ selectedSource.id = "c2"

\* C18: clicking the citation that is already selected changes nothing but
\* the count of scroll requests: no render is issued, and the descriptor, the
\* viewport, the strategy, the flags, the canvas and the text layer stay.
ReselectionIsIdempotent ==
  [][(route = "chats" /\ route' = "chats" /\ asks' = asks
      /\ scrollRequests' # scrollRequests /\ selectedSource' = selectedSource)
       => /\ attempts' = attempts
          /\ renders' = renders
          /\ canvas' = canvas
          /\ textLayer' = textLayer
          /\ pdfUseIframeFallback' = pdfUseIframeFallback
          /\ pdfError' = pdfError
          /\ pdfBusy' = pdfBusy
          /\ chatError' = chatError
          /\ previewData' = previewData
          /\ previewLoading' = previewLoading
          /\ viewerZoom' = viewerZoom
          /\ viewerFitWidth' = viewerFitWidth
          /\ viewerFullscreen' = viewerFullscreen]_vars

\* The only answer carried one citation, which was selected when the answer
\* arrived and once more by a click, with a page painted natively.
ReselectionWitness ==
  /\ route = "chats"
  /\ answers = 1
  /\ scrollRequests = 2
  /\ Cardinality(shownSources) = 1
  /\ selectedSource \in shownSources
  /\ canvas.att # 0

\* C19: a step that handles the arrival of an answer leaves the selected
\* citation as it was.
AnswerKeepsSelection ==
  [][(route = "chats" /\ route' = "chats" /\ asks' < asks)
       => selectedSource' = selectedSource]_vars

\* C20: a step that handles a preview response and routes to sign-in removes
\* the three session entries, commits no descriptor, issues no request and
\* leaves the loading flag false; and the sign-in page is only ever reached
\* with the three entries removed.
SignedOut ==
  access_token = "none" /\ current_user = "none" /\ auth_mode = "none"

UnauthorizedSignsOut ==
  /\ [](route = "signin" => SignedOut)
  /\ [][(route # "signin" /\ route' = "signin"
         /\ activeDocumentId' = activeDocumentId
         /\ (fetches' # fetches \/ libFetches' # libFetches))
          => /\ SignedOut'
             /\ previewData' = previewData
             /\ libPreviewData' = libPreviewData
             /\ ~previewLoading'
             /\ ~libPreviewLoading'
             /\ fetches' \subseteq fetches
             /\ libFetches' \subseteq libFetches]_vars

\* Signed out from the chat page with the active document's request still
\* pending, no descriptor, no error and the loading flag false: the response
\* to an earlier request was a 401.
UnauthorizedWitness ==
  /\ route = "signin"
  /\ SignedOut
  /\ activeDocumentId \in fetches
  /\ ~previewLoading
  /\ previewData = NoData
  /\ chatError = NoError

(***************************************************************************)
(* C21: a descriptor request that fails for a reason other than 401 shows  *)
(* the load-failure message, is not sent again, and leaves the loading     *)
(* flag false.  A step of either page that handles a response and stays on *)
(* the page takes exactly one request out of flight and puts none in, ends *)
(* with the loading flag false, and either commits the descriptor of that  *)
(* request or keeps the descriptor and shows the load-failure message.     *)
(***************************************************************************)
ChatResponseHandled ==
  /\ route = "chats" /\ route' = "chats"
  /\ activeDocumentId' = activeDocumentId
  /\ fetches' # fetches

LibResponseHandled ==
  /\ route = "documents" /\ route' = "documents"
  /\ libFetches' # libFetches
  /\ ~(libFetches \subseteq libFetches')

PreviewFailureShown ==
  [][/\ ChatResponseHandled =>
          \E d \in fetches :
            /\ fetches' = fetches \ {d}
            /\ previewLoading' = FALSE
            /\ \/ previewData' = Descriptor(d) /\ chatError' = chatError
               \/ previewData' = previewData /\ chatError' = PreviewLoadError
     /\ LibResponseHandled =>
          \E d \in libFetches :
            /\ libFetches' = libFetches \ {d}
            /\ libPreviewLoading' = FALSE
            /\ \/ libPreviewData' = Descriptor(d) /\ libError' = libError
               \/ libPreviewData' = libPreviewData
                  /\ libError' = LibPreviewLoadError]_vars

\* The first request of a chat failed and nothing is in flight.
PreviewFailureWitness ==
  /\ route = "chats"
  /\ activeDocumentId # NoDoc
  /\ previewData = NoData
  /\ chatError = PreviewLoadError
  /\ ~previewLoading
  /\ fetches = {}

(***************************************************************************)
(* C22: every descriptor request waits a bounded time, so that the loading *)
(* flag of the chat becomes false after every open even when the server    *)
(* never answers: while the chat stays mounted, a true previewLoading      *)
(* leads to a false one.                                                   *)
(***************************************************************************)
PreviewLoadingEnds ==
  (route = "chats" /\ previewLoading) ~> (route # "chats" \/ ~previewLoading)

(***************************************************************************)
(* C23: a native render attempt goes Requesting, Painting, Ready, and      *)
(* Error is entered from Requesting or Painting only; with the awaited     *)
(* steps settling every attempt ends Ready or Error, every Error switches  *)
(* to the fallback instead of being shown raw, and an ended attempt does   *)
(* nothing more.  Requesting is the wait for the document and the page,    *)
(* Painting the wait for the canvas and then for the text layer; an        *)
(* attempt that is out of renders has ended.                               *)
(***************************************************************************)
Running(id) == \E r \in renders : r.id = id

Stage(pc) == CASE pc = "load" -> 1 [] pc = "paint" -> 2 [] pc = "text" -> 3

\* An attempt starts Requesting and moves one stage at a time.
AttemptAdvances ==
  \A q \in renders' :
    IF Running(q.id)
    THEN \E r \in renders :
           /\ r.id = q.id
           /\ Stage(q.pc) \in {Stage(r.pc), Stage(r.pc) + 1}
    ELSE q.pc = "load" /\ q.id = attempts + 1

\* An attempt that has ended is not resumed.
EndedStaysEnded ==
  \A id \in 1..attempts : ~Running(id) => ~Running(id)'

\* An attempt that ends before its text layer wait ended in Error: the
\* fallback is on and the message is the one of the fallback.
ErrorAbsorbed ==
  \A r \in renders :
    (r.pc \in {"load", "paint"} /\ ~Running(r.id)')
      => pdfUseIframeFallback' /\ pdfError' = RenderFailedError

RenderLifecycle ==
  /\ [][(route = "chats" /\ route' = "chats")
          => AttemptAdvances /\ EndedStaysEnded /\ ErrorAbsorbed]_vars
  /\ \A id \in RenderIds :
       (route = "chats" /\ Running(id)) ~> (route # "chats" \/ ~Running(id))

\* Both attempts have ended and the second one is on the canvas.
RenderLifecycleWitness ==
  /\ route = "chats"
  /\ attempts = MaxAttempts
  /\ renders = {}
  /\ ~pdfUseIframeFallback
  /\ canvas.att = MaxAttempts
  /\ textLayer.spans # <<>>

(***************************************************************************)
(* C24: while the open PDF is drawn natively, each of these events issues  *)
(* a new render request: a document is opened, the page of the selected    *)
(* citation changes, the zoom changes, the container is resized while      *)
(* fit-to-width is on.  A step of the chat after which the guard of        *)
(* renderPdfVerification passes and in which one of these inputs changed   *)
(* starts an attempt.                                                      *)
(***************************************************************************)
RenderInputChanged ==
  \/ previewData'.id # previewData.id
  \/ selectedSource'.page # selectedSource.page
  \/ viewerZoom' # viewerZoom
  \/ viewerFitWidth' /\ clientWidth' # clientWidth

EveryTriggerRerenders ==
  [][(route = "chats" /\ route' = "chats" /\ RenderGuardPasses'
        /\ RenderInputChanged)
       => attempts' = attempts + 1]_vars

(***************************************************************************)
(* C25: in the fallback the address of the embedded viewer is the          *)
(* document's locator followed by the page of the selected citation (1     *)
(* with no citation or a page below 1) and the zoom (page-width while      *)
(* fit-to-width is on, the zoom percentage otherwise), in every state and  *)
(* so after every change of the three; nothing is highlighted: the canvas  *)
(* and the text layer are out of the tree.                                 *)
(***************************************************************************)
FallbackAddress ==
  (PdfShown /\ pdfUseIframeFallback) =>
    /\ IframeUrl.base = previewData.id
    /\ IframeUrl.page = IF selectedSource = NoSource \/ selectedSource.page < 1
                        THEN 1 ELSE selectedSource.page
    /\ IframeUrl.zoom = IF viewerFitWidth THEN "page-width" ELSE viewerZoom
    /\ canvas = BlankCanvas
    /\ textLayer = BlankTextLayer

\* The fallback shows the page of a citation at a fixed zoom.
FallbackAddressWitness ==
  /\ PdfShown
  /\ pdfUseIframeFallback
  /\ selectedSource # NoSource
  /\ ~viewerFitWidth
  /\ IframeUrl = [base |-> previewData.id, page |-> selectedSource.page,
                  zoom |-> ZoomDefault]

(***************************************************************************)
(* C26: in every state of the chat, when the fallback flag is set for the  *)
(* open PDF the render-error message is not empty.                         *)
(***************************************************************************)
FallbackHasMessage ==
  (PdfShown /\ pdfUseIframeFallback) => pdfError # NoError

\* The fallback is on with its message while another attempt still runs.
FallbackHasMessageWitness ==
  /\ PdfShown
  /\ pdfUseIframeFallback
  /\ pdfError = RenderFailedError
  /\ attempts = MaxAttempts
  /\ renders # {}

(***************************************************************************)
(* C27: pdfBusy is true exactly while at least one native render attempt   *)
(* is in flight: the end of an older attempt does not clear it while a     *)
(* newer one runs, and it is false when none runs.                         *)
(***************************************************************************)
BusyWhileRendering ==
  route = "chats" => (pdfBusy <=> renders # {})

(***************************************************************************)
(* C28: the preview dialog of the library shows the descriptor of the      *)
(* preview requested last.  Closed, it stays closed until the user opens a *)
(* preview again; with A and then B requested it ends showing B, whichever *)
(* response arrives last.  libRequested is the document of the latest      *)
(* request and NoDoc once the dialog was closed: with every response in    *)
(* and no failure to report, a dialog that is shown shows libRequested.    *)
(***************************************************************************)
LatestPreviewShown ==
  (route = "documents" /\ libFetches = {} /\ libError = NoError
     /\ libPreviewData # NoData)
    => libPreviewData.id = libRequested

(***************************************************************************)
(* C29: in DocxPreview a superseded load (fileUrl changed, or the          *)
(* component gone) never clears or writes the container and never sets the *)
(* error or the loading state; and the loading indicator is false whenever *)
(* no load for the current fileUrl is in flight, also after fileUrl became *)
(* empty during a load.                                                    *)
(***************************************************************************)
SupersededStep(l) ==
  /\ l \in docxLoads
  /\ ~l.alive
  /\ l \notin docxLoads'

CurrentLoadInFlight ==
  \E l \in docxLoads : l.alive /\ l.url = fileUrl

SupersededLoadInert ==
  /\ [][(\E l \in docxLoads : SupersededStep(l))
          => UNCHANGED <<docxContainer, docxError, docxLoading>>]_vars
  /\ []((docxMounted /\ docxLoading) => CurrentLoadInFlight)

(***************************************************************************)
(* C30: getValidAccessToken never returns a token whose readable expiry is *)
(* at or before now + 5 seconds: it then returns null, with access_token,  *)
(* current_user and auth_mode removed; it returns the stored token when    *)
(* the token carries no readable expiry, and null with the storage as it   *)
(* was when no token is stored.                                            *)
(***************************************************************************)
\* The payload carries an exp that reads as a number.
ReadableExpiry(p) == p.parsed /\ p.hasExp /\ p.numeric

\* The contract, for a call that has returned, with due telling which
\* tokens are to be refused.
TokenContract(due) ==
  tokenOut.called =>
    IF tokenIn.stored = "none"
    THEN /\ tokenOut.token = "none"
         /\ sessionVars = <<"none", "set", "set">>
    ELSE IF due
    THEN /\ tokenOut.token = "none"
         /\ sessionVars = <<"none", "none", "none">>
    ELSE /\ tokenOut.token = tokenIn.stored
         /\ sessionVars = <<tokenIn.stored, "set", "set">>

\* As stated: every readable expiry at or before now + 5 is refused.
ExpiringTokenRefused ==
  TokenContract(/\ ReadableExpiry(tokenIn.payload)
                /\ tokenIn.payload.exp <= tokenIn.now + ExpiryMargin)

\* Amended: an expiry of 0 is taken for no expiry.
NonZeroExpiringTokenRefused ==
  TokenContract(/\ ReadableExpiry(tokenIn.payload)
                /\ tokenIn.payload.exp # 0
                /\ tokenIn.payload.exp <= tokenIn.now + ExpiryMargin)

\* A token that expires in exactly five seconds was refused.
ExpiringTokenWitness ==
  /\ tokenOut = Returned("none")
  /\ tokenIn.stored = "valid"
  /\ ReadableExpiry(tokenIn.payload)
  /\ tokenIn.payload.exp = tokenIn.now + ExpiryMargin
  /\ sessionVars = <<"none", "none", "none">>

=============================================================================
